---- MODULE Spec2Model ----
(***************************************************************************)
(* arcade.gui.widgets.layout: UIAnchorLayout and UIBoxLayout.              *)
(*                                                                         *)
(* The model is of one layout container, a UIAnchorLayout or a             *)
(* UIBoxLayout, and the plain widgets that are its children.  A widget is  *)
(* constructed when it is added and dropped when it is removed.            *)
(*                                                                         *)
(* Every length and coordinate is counted in HALF pixels, so that          *)
(* Rect.center_x = x + width / 2 (true division) is exact for whole-pixel  *)
(* widths.  Px(n) is n whole pixels.                                       *)
(***************************************************************************)
EXTENDS Integers, Sequences, FiniteSets, TLC

\* ---------------------------------------------------------------- bounds
NumLeaves == 2
MaxSide == 2
MaxSpace == 1
MaxAlign == 1

\* ------------------------------------------------------------ arithmetic
Px(n) == 2 * n
Max(a, b) == IF a >= b THEN a ELSE b
\* v / 2 (true division) of a whole-pixel length v
TrueDiv2(v) == v \div 2
\* v // 2 (floor division, result in whole pixels) of a length v
FloorDiv2(v) == Px(v \div 4)

RECURSIVE SumOver(_, _)
SumOver(s, f) == IF s = <<>> THEN 0 ELSE f[Head(s)] + SumOver(Tail(s), f)

RECURSIVE MaxOver(_, _)
MaxOver(s, f) ==
  IF Len(s) = 1 THEN f[Head(s)] ELSE Max(f[Head(s)], MaxOver(Tail(s), f))

Range(s) == {s[i] : i \in 1..Len(s)}

\* ------------------------------------------------------------------ Rect
Rect(x, y, w, h) == [x |-> x, y |-> y, width |-> w, height |-> h]
Left(r) == r.x
Right(r) == r.x + r.width
Bottom(r) == r.y
Top(r) == r.y + r.height
CenterX(r) == r.x + TrueDiv2(r.width)
CenterY(r) == r.y + TrueDiv2(r.height)
Move(r, dx, dy) == Rect(r.x + dx, r.y + dy, r.width, r.height)
Resize(r, w, h) == Rect(r.x, r.y, w, h)
MinSize(r, w, h) == Rect(r.x, r.y, Max(w, r.width), Max(h, r.height))
AlignLeft(r, v) == Move(r, v - Left(r), 0)
AlignRight(r, v) == Move(r, v - Right(r), 0)
AlignTop(r, v) == Move(r, 0, v - Top(r))
AlignBottom(r, v) == Move(r, 0, v - Bottom(r))
AlignCenterX(r, v) == Move(r, v - CenterX(r), 0)
AlignCenterY(r, v) == Move(r, 0, v - CenterY(r))

\* the names getattr(rect, name) resolves
RectAttrs == {"left", "right", "bottom", "top", "center_x", "center_y"}
GetAttr(r, name) ==
  CASE name = "left" -> Left(r)
    [] name = "right" -> Right(r)
    [] name = "bottom" -> Bottom(r)
    [] name = "top" -> Top(r)
    [] name = "center_x" -> CenterX(r)
    [] name = "center_y" -> CenterY(r)

\* --------------------------------------------------------------- widgets
\* the container itself, and the plain widgets
Self == 0
Leaves == 1..NumLeaves
Widgets == {Self} \cup Leaves
None == "None"
NoHint == <<>>

\* the sizes (width, height) a plain widget takes
LeafSizes == {<<Px(w), Px(MaxSide + 1 - w)>> : w \in 1..MaxSide}

\* padding and border of a widget
Padding(l, r, t, b, bw) ==
  [left |-> l, right |-> r, top |-> t, bottom |-> b, border |-> bw]
NoPadding == Padding(0, 0, 0, 0, 0)
SomePadding == Padding(Px(1), Px(2), Px(1), Px(3), Px(1))

ContentWidth(r, p) == r.width - 2 * p.border - p.left - p.right
ContentHeight(r, p) == r.height - 2 * p.border - p.top - p.bottom
ContentRect(r, p) ==
  Rect(r.x + p.border + p.left, r.y + p.border + p.bottom,
       ContentWidth(r, p), ContentHeight(r, p))

VARIABLES
  cfg,            \* the container: its class and constructor arguments
  rect,           \* widget -> its rect (rect[Self]: the container's own)
  size_hint_min,  \* widget -> NoHint or <<min width, min height>>
  children,       \* self._children: the entries (child, data) in order
  op,             \* the operation performed last
  writes,         \* assignments to a child.rect made by the last do_layout
  raised,         \* whether the last operation raised
  repeated        \* whether the last do_layout directly followed a do_layout

vars == <<cfg, rect, size_hint_min, children, op, writes, raised, repeated>>

Entry(child, data) == [child |-> child, data |-> data]
\* self.children: [child for child, data in self._children]
Kids(entries) == [i \in 1..Len(entries) |-> entries[i].child]
Present == Range(Kids(children))

\* ------------------------------------------------------------ UIBoxLayout
Aligns == {"left", "center", "right", "top", "bottom"}

\* _update_size_hints with a gap counted after every child (a mutant)
UpdateSizeHintsGapPerChild(kids, r, c) ==
  LET n == Len(kids)
      w == [k \in Widgets |-> r[k].width]
      h == [k \in Widgets |-> r[k].height]
      gaps == n * c.space_between
      p == c.padding
  IN <<p.left + p.right + 2 * p.border
         + (IF n = 0 THEN 0
            ELSE IF c.vertical THEN MaxOver(kids, w)
            ELSE SumOver(kids, w) + gaps),
       p.top + p.bottom + 2 * p.border
         + (IF n = 0 THEN 0
            ELSE IF c.vertical THEN SumOver(kids, h) + gaps
            ELSE MaxOver(kids, h))>>

\* the value _update_size_hints assigns to self.size_hint_min
UpdateSizeHints(kids, r, c) ==
  LET n == Len(kids)
      w == [k \in Widgets |-> r[k].width]
      h == [k \in Widgets |-> r[k].height]
      required_space_between == Max(0, n - 1) * c.space_between
      width == IF n = 0 THEN 0
               ELSE IF c.vertical THEN MaxOver(kids, w)
               ELSE SumOver(kids, w) + required_space_between
      height == IF n = 0 THEN 0
                ELSE IF c.vertical
                  THEN SumOver(kids, h) + required_space_between
                ELSE MaxOver(kids, h)
      p == c.padding
      base_width == p.left + p.right + 2 * p.border
      base_height == p.top + p.bottom + 2 * p.border
  IN <<base_width + width, base_height + height>>

\* __init__: super().__init__ stores the caller's size_hint_min and adds the
\* initial kids; the explicit _update_size_hints() call then replaces it
ConstructedHint(supplied, kids, r, c) == UpdateSizeHints(kids, r, c)

\* fit_content that only grows the rect, min_size for resize (a mutant)
FitContentRectGrowOnly(r, hint) == MinSize(r, hint[1], hint[2])

\* fit_content: self.rect.resize(*self.size_hint_min)
FitContentRect(r, hint) == Resize(r, hint[1], hint[2])

\* an unconditional assignment to child.rect (a mutant)
RectDiffersAlways(new_rect, old_rect) == TRUE

\* the check before an assignment to child.rect
RectDiffers(new_rect, old_rect) == new_rect # old_rect

\* the vertical branch falling back to the left edge (a mutant)
VerticalCrossAlignElseLeft(child_rect, align, start_x, content_width) ==
  IF align = "right" THEN AlignRight(child_rect, start_x + content_width)
  ELSE IF align = "center"
    THEN AlignCenterX(child_rect, start_x + FloorDiv2(content_width))
  ELSE AlignLeft(child_rect, start_x)

\* vertical branch: the cross-axis placement of one child
VerticalCrossAlign(child_rect, align, start_x, content_width) ==
  IF align = "left" THEN AlignLeft(child_rect, start_x)
  ELSE IF align = "right" THEN AlignRight(child_rect, start_x + content_width)
  ELSE AlignCenterX(child_rect, start_x + FloorDiv2(content_width))

\* the horizontal branch with "bottom" measured from the top (a mutant)
HorizontalCrossAlignBottomAtTop(child_rect, align, start_y, content_height) ==
  IF align = "top" THEN AlignTop(child_rect, start_y)
  ELSE IF align = "bottom" THEN AlignBottom(child_rect, start_y)
  ELSE AlignCenterY(child_rect, start_y - FloorDiv2(content_height))

\* the horizontal branch with content_height / 2 (a mutant)
HorizontalCrossAlignTrueDiv(child_rect, align, start_y, content_height) ==
  IF align = "top" THEN AlignTop(child_rect, start_y)
  ELSE IF align = "bottom"
    THEN AlignBottom(child_rect, start_y - content_height)
  ELSE AlignCenterY(child_rect, start_y - TrueDiv2(content_height))

\* horizontal branch: the cross-axis placement of one child
HorizontalCrossAlign(child_rect, align, start_y, content_height) ==
  IF align = "top" THEN AlignTop(child_rect, start_y)
  ELSE IF align = "bottom"
    THEN AlignBottom(child_rect, start_y - content_height)
  ELSE AlignCenterY(child_rect, start_y - FloorDiv2(content_height))

\* the running start_y without the gap (a mutant)
AdvanceDownNoGap(start_y, height, space_between) == start_y - height

\* the running start_y below a placed child
AdvanceDown(start_y, height, space_between) == (start_y - height) - space_between

\* the running start_x right of a placed child
AdvanceRight(start_x, width, space_between) == (start_x + width) + space_between

\* the loop of the vertical branch from child i on: r the rects so far,
\* n the assignments made so far
RECURSIVE LayoutVertical(_, _, _, _, _, _, _)
LayoutVertical(kids, c, i, r, start_x, start_y, n) ==
  IF i > Len(kids) THEN [rect |-> r, writes |-> n]
  ELSE
    LET child == kids[i]
        new_rect ==
          AlignTop(VerticalCrossAlign(r[child], c.align, start_x,
                                      ContentWidth(r[Self], c.padding)),
                   start_y)
        differs == RectDiffers(new_rect, r[child])
        r2 == IF differs THEN [r EXCEPT ![child] = new_rect] ELSE r
    IN LayoutVertical(kids, c, i + 1, r2, start_x,
                      AdvanceDown(start_y, r2[child].height, c.space_between),
                      IF differs THEN n + 1 ELSE n)

\* the loop of the horizontal branch from child i on
RECURSIVE LayoutHorizontal(_, _, _, _, _, _, _)
LayoutHorizontal(kids, c, i, r, start_x, start_y, n) ==
  IF i > Len(kids) THEN [rect |-> r, writes |-> n]
  ELSE
    LET child == kids[i]
        new_rect ==
          AlignLeft(HorizontalCrossAlign(r[child], c.align, start_y,
                                         ContentHeight(r[Self], c.padding)),
                    start_x)
        differs == RectDiffers(new_rect, r[child])
        r2 == IF differs THEN [r EXCEPT ![child] = new_rect] ELSE r
    IN LayoutHorizontal(kids, c, i + 1, r2,
                        AdvanceRight(start_x, r2[child].width, c.space_between),
                        start_y, IF differs THEN n + 1 ELSE n)

\* UIBoxLayout.do_layout: the rects and the number of assignments it leaves
BoxLayout(kids, c, r) ==
  LET content == ContentRect(r[Self], c.padding)
      start_y == Top(content)
      start_x == Left(content)
  IN IF kids = <<>> THEN [rect |-> r, writes |-> 0]
     ELSE IF c.vertical
       THEN LayoutVertical(kids, c, 1, r, start_x, start_y, 0)
     ELSE LayoutHorizontal(kids, c, 1, r, start_x, start_y, 0)

\* --------------------------------------------------------- UIAnchorLayout
default_anchor_x == "center"
default_anchor_y == "center"

Data(ax, dx, ay, dy) ==
  [anchor_x |-> ax, align_x |-> dx, anchor_y |-> ay, align_y |-> dy]

\* the keyword options add() is called with
Placements ==
  { Data(None, 0, None, 0),
    Data("left", Px(MaxAlign), "top", -Px(MaxAlign)),
    Data("right", -Px(MaxAlign), "bottom", Px(MaxAlign)),
    Data("center", Px(MaxAlign), "center_y", 0),
    Data("center_x", 0, "center", -Px(MaxAlign)),
    Data("bogus", 0, None, 0) }

\* anchor_x or self.default_anchor_x, then "center" -> "center_x"
ResolveAnchorX(anchor_x) ==
  LET a == IF anchor_x = None THEN default_anchor_x ELSE anchor_x
  IN IF a = "center" THEN "center_x" ELSE a

\* anchor_y or self.default_anchor_y, then "center" -> "center_y"
ResolveAnchorY(anchor_y) ==
  LET a == IF anchor_y = None THEN default_anchor_y ELSE anchor_y
  IN IF a = "center" THEN "center_y" ELSE a

\* new_child_rect without the size_hint_min (a mutant)
CandidateNoGrow(child_rect, hint) == child_rect

\* new_child_rect: the child's rect grown to its size_hint_min, if it has one
Candidate(child_rect, hint) ==
  IF hint # NoHint THEN MinSize(child_rect, hint[1], hint[2]) ELSE child_rect

\* the diff without the align offset (a mutant)
DiffNoAlign(own_value, align, child_value) == own_value - child_value

\* diff = own anchor value + align - child anchor value
Diff(own_value, align, child_value) == own_value + align - child_value

\* "check if changes are required"
ChangesRequired(diff_x, diff_y, old_rect, new_child_rect) ==
  diff_x # 0 \/ diff_y # 0 \/ old_rect # new_child_rect

\* _place_child: the child's rect afterwards, whether it was assigned, and
\* whether getattr raised AttributeError (nothing is assigned then)
PlaceChild(child_rect, hint, content_rect, data) ==
  LET anchor_x == ResolveAnchorX(data.anchor_x)
      anchor_y == ResolveAnchorY(data.anchor_y)
      new_child_rect == Candidate(child_rect, hint)
  IN IF anchor_x \notin RectAttrs \/ anchor_y \notin RectAttrs
       THEN [rect |-> child_rect, assigned |-> FALSE, raised |-> TRUE]
     ELSE
       LET diff_x == Diff(GetAttr(content_rect, anchor_x), data.align_x,
                          GetAttr(new_child_rect, anchor_x))
           diff_y == Diff(GetAttr(content_rect, anchor_y), data.align_y,
                          GetAttr(new_child_rect, anchor_y))
       IN IF ChangesRequired(diff_x, diff_y, child_rect, new_child_rect)
            THEN [rect |-> Move(new_child_rect, diff_x, diff_y),
                  assigned |-> TRUE, raised |-> FALSE]
          ELSE [rect |-> child_rect, assigned |-> FALSE, raised |-> FALSE]

\* UIAnchorLayout.do_layout from entry i on; an exception ends the pass
RECURSIVE AnchorLayout(_, _, _, _, _, _)
AnchorLayout(entries, c, hints, i, r, n) ==
  IF i > Len(entries) THEN [rect |-> r, writes |-> n, raised |-> FALSE]
  ELSE
    LET e == entries[i]
        placed == PlaceChild(r[e.child], hints[e.child],
                             ContentRect(r[Self], c.padding), e.data)
    IN IF placed.raised THEN [rect |-> r, writes |-> n, raised |-> TRUE]
       ELSE AnchorLayout(entries, c, hints, i + 1,
                         [r EXCEPT ![e.child] = placed.rect],
                         IF placed.assigned THEN n + 1 ELSE n)

\* ----------------------------------------------------- the child collection
\* UIBoxLayout.add passes no layout options
NoData == <<>>

\* UILayout.add: the child is appended with its layout options
AddEntry(entries, child, data) == Append(entries, Entry(child, data))

\* UILayout.remove
RemoveEntry(entries, child) == SelectSeq(entries, LAMBDA e : e.child # child)

\* a plain widget that is not constructed yet, or was removed and dropped
Unbuilt == Rect(0, 0, 0, 0)
\* UIWidget(x=0, y=0, width=w, height=h)
NewWidget(size) == Rect(0, 0, size[1], size[2])

\* ------------------------------------------------------------------- Init
BoxConfigs ==
  [class : {"UIBoxLayout"}, vertical : BOOLEAN, align : Aligns,
   space_between : {Px(n) : n \in 0..MaxSpace},
   padding : {NoPadding, SomePadding}]

AnchorConfigs ==
  [class : {"UIAnchorLayout"}, padding : {NoPadding, SomePadding}]

\* the rects the containers are constructed with
BoxOwnRect == Rect(Px(1), Px(1), 0, 0)
AnchorOwnRect == Rect(Px(1), Px(2), Px(9), Px(8))

LeafHints ==
  {NoHint, <<Px(MaxSide + 1), Px(1)>>, <<Px(MaxSide + 1), Px(MaxSide + 1)>>}
SuppliedHints == {NoHint, <<Px(9), Px(9)>>}

\* the sequences without repetition over the plain widgets
InitialChildren ==
  {s \in UNION {[1..n -> Leaves] : n \in 0..NumLeaves} :
     \A i, j \in 1..Len(s) : i # j => s[i] # s[j]}

\* UIBoxLayout(vertical=, align=, children=, size_hint_min=, space_between=)
InitBox ==
  \E c \in BoxConfigs, kids \in InitialChildren, supplied \in SuppliedHints,
     size \in [Leaves -> LeafSizes] :
    LET r0 == [k \in Widgets |->
                 IF k = Self THEN BoxOwnRect
                 ELSE IF k \in Range(kids) THEN NewWidget(size[k])
                 ELSE Unbuilt]
    IN /\ cfg = c
       /\ rect = r0
       /\ children = [i \in 1..Len(kids) |-> Entry(kids[i], NoData)]
       /\ size_hint_min =
            [k \in Widgets |->
               IF k = Self THEN ConstructedHint(supplied, kids, r0, c)
               ELSE NoHint]

\* UIAnchorLayout()
InitAnchor ==
  /\ cfg \in AnchorConfigs
  /\ rect = [k \in Widgets |-> IF k = Self THEN AnchorOwnRect ELSE Unbuilt]
  /\ children = <<>>
  /\ size_hint_min = [k \in Widgets |-> NoHint]

Init ==
  /\ InitBox \/ InitAnchor
  /\ op = "init"
  /\ writes = 0
  /\ raised = FALSE
  /\ repeated = FALSE

\* ---------------------------------------------------------------- actions
IsBox == cfg.class = "UIBoxLayout"
IsAnchor == cfg.class = "UIAnchorLayout"

\* UIAnchorLayout.add(child, anchor_x=, align_x=, anchor_y=, align_y=) of a
\* newly constructed widget
AnchorAdd(child, size, hint, data) ==
  /\ IsAnchor
  /\ child \in Leaves \ Present
  /\ rect' = [rect EXCEPT ![child] = NewWidget(size)]
  /\ size_hint_min' = [size_hint_min EXCEPT ![child] = hint]
  /\ children' = AddEntry(children, child, data)
  /\ op' = "anchor_add"
  /\ writes' = 0
  /\ raised' = FALSE
  /\ repeated' = FALSE
  /\ UNCHANGED cfg

\* UIAnchorLayout.remove(child); the widget removed is dropped
AnchorRemove(child) ==
  /\ IsAnchor
  /\ child \in Present
  /\ children' = RemoveEntry(children, child)
  /\ rect' = [rect EXCEPT ![child] = Unbuilt]
  /\ size_hint_min' = [size_hint_min EXCEPT ![child] = NoHint]
  /\ op' = "anchor_remove"
  /\ writes' = 0
  /\ raised' = FALSE
  /\ repeated' = FALSE
  /\ UNCHANGED cfg

\* UIAnchorLayout.do_layout()
AnchorDoLayout ==
  /\ IsAnchor
  /\ LET done == AnchorLayout(children, cfg, size_hint_min, 1, rect, 0)
     IN /\ rect' = done.rect
        /\ writes' = done.writes
        /\ raised' = done.raised
  /\ op' = "anchor_do_layout"
  /\ repeated' = (op = "anchor_do_layout")
  /\ UNCHANGED <<cfg, size_hint_min, children>>

\* UIBoxLayout.add of a newly constructed widget: the bound
\* _update_size_hints runs on the change of _children
BoxAdd(child, size) ==
  /\ IsBox
  /\ child \in Leaves \ Present
  /\ rect' = [rect EXCEPT ![child] = NewWidget(size)]
  /\ children' = AddEntry(children, child, NoData)
  /\ size_hint_min' =
       [size_hint_min EXCEPT
          ![Self] = UpdateSizeHints(Kids(children'), rect', cfg)]
  /\ op' = "box_add"
  /\ writes' = 0
  /\ raised' = FALSE
  /\ repeated' = FALSE
  /\ UNCHANGED cfg

\* UIBoxLayout.remove(child); the widget removed is dropped
BoxRemove(child) ==
  /\ IsBox
  /\ child \in Present
  /\ children' = RemoveEntry(children, child)
  /\ rect' = [rect EXCEPT ![child] = Unbuilt]
  /\ size_hint_min' =
       [size_hint_min EXCEPT
          ![Self] = UpdateSizeHints(Kids(children'), rect', cfg)]
  /\ op' = "box_remove"
  /\ writes' = 0
  /\ raised' = FALSE
  /\ repeated' = FALSE
  /\ UNCHANGED cfg

\* UIBoxLayout.do_layout()
BoxDoLayout ==
  /\ IsBox
  /\ LET done == BoxLayout(Kids(children), cfg, rect)
     IN /\ rect' = done.rect
        /\ writes' = done.writes
  /\ raised' = FALSE
  /\ op' = "box_do_layout"
  /\ repeated' = (op = "box_do_layout")
  /\ UNCHANGED <<cfg, size_hint_min, children>>

\* UIBoxLayout.fit_content()
FitContent ==
  /\ IsBox
  /\ rect' =
       [rect EXCEPT ![Self] = FitContentRect(rect[Self], size_hint_min[Self])]
  /\ op' = "fit_content"
  /\ writes' = 0
  /\ raised' = FALSE
  /\ repeated' = FALSE
  /\ UNCHANGED <<cfg, size_hint_min, children>>

\* a child's own width or height changes: child.rect = child.rect.resize(w, h)
ResizeChild(child, w, h) ==
  /\ child \in Present
  /\ <<w, h>> # <<rect[child].width, rect[child].height>>
  /\ rect' = [rect EXCEPT ![child] = Resize(rect[child], w, h)]
  /\ op' = "resize"
  /\ writes' = 0
  /\ raised' = FALSE
  /\ repeated' = FALSE
  /\ UNCHANGED <<cfg, size_hint_min, children>>

Next ==
  \/ \E child \in Leaves, size \in LeafSizes, hint \in LeafHints,
        data \in Placements : AnchorAdd(child, size, hint, data)
  \/ \E child \in Leaves : AnchorRemove(child)
  \/ AnchorDoLayout
  \/ \E child \in Leaves, size \in LeafSizes : BoxAdd(child, size)
  \/ \E child \in Leaves : BoxRemove(child)
  \/ BoxDoLayout
  \/ FitContent
  \/ \E child \in Leaves, size \in LeafSizes :
       ResizeChild(child, size[1], size[2])

Spec == Init /\ [][Next]_vars

\* ================================================================ claims
Content == ContentRect(rect[Self], cfg.padding)
Child(i) == children[i].child
NumChildren == Len(children)

\* sum and maximum of f over the children 1..n, in collection order
RECURSIVE ClaimSum(_, _)
ClaimSum(f, n) == IF n = 0 THEN 0 ELSE f[Child(n)] + ClaimSum(f, n - 1)
ClaimMax(f) ==
  CHOOSE m \in {f[c] : c \in Present} : \A c \in Present : f[c] <= m

\* the stacked bounding box of the current children at their current sizes,
\* plus padding and border
ExpectedHint ==
  LET n == NumChildren
      w == [c \in Widgets |-> rect[c].width]
      h == [c \in Widgets |-> rect[c].height]
      gaps == (IF n > 1 THEN n - 1 ELSE 0) * cfg.space_between
      W == IF n = 0 THEN 0
           ELSE IF cfg.vertical THEN ClaimMax(w) ELSE ClaimSum(w, n) + gaps
      H == IF n = 0 THEN 0
           ELSE IF cfg.vertical THEN ClaimSum(h, n) + gaps ELSE ClaimMax(h)
      p == cfg.padding
  IN <<p.left + p.right + 2 * p.border + W,
       p.top + p.bottom + 2 * p.border + H>>

\* C1: right after construction and after every add or remove of a child,
\* the box's size_hint_min is the padding/border box plus the stacked size
\* of the current children (max on the cross axis, sum plus n-1 gaps on the
\* primary axis, zero without children).
C1_HintAfterChange ==
  (IsBox /\ op \in {"init", "box_add", "box_remove"})
    => size_hint_min[Self] = ExpectedHint

\* an add left two children of different sizes in a box with a gap
C1_Witness ==
  /\ IsBox /\ op = "box_add" /\ NumChildren = 2
  /\ cfg.space_between > 0 /\ cfg.vertical
  /\ rect[Child(1)].width # rect[Child(2)].width
  /\ size_hint_min[Self] = ExpectedHint

\* C2: in every reachable state of a box, whatever operations led to it,
\* size_hint_min equals the stacked bounding box of the current children at
\* their current sizes.
C2_HintNeverStale == IsBox => size_hint_min[Self] = ExpectedHint

LayoutOps == {"anchor_do_layout", "box_do_layout"}

\* C3: a do_layout that directly follows a do_layout of the same container
\* leaves every child's rect as the first left it and makes no assignment
\* to a child.rect.
C3_Idempotent ==
  [][(op \in LayoutOps /\ op' = op) => (rect' = rect /\ writes' = 0)]_vars

\* a second do_layout in a row found both children of a box where the first
\* had put them and assigned nothing
C3_Witness ==
  /\ IsBox /\ op = "box_do_layout" /\ repeated /\ writes = 0
  /\ NumChildren = 2
  /\ \A c \in Present : rect[c].x # 0 /\ rect[c].y # 0

\* the anchor values the claim names, by axis
ClaimAnchorX(r, a) ==
  CASE a = "left" -> Left(r)
    [] a = "right" -> Right(r)
    [] a \in {None, "center", "center_x"} -> CenterX(r)
ClaimAnchorY(r, a) ==
  CASE a = "bottom" -> Bottom(r)
    [] a = "top" -> Top(r)
    [] a \in {None, "center", "center_y"} -> CenterY(r)

Anchored(r, d) ==
  /\ ClaimAnchorX(r, d.anchor_x) = ClaimAnchorX(Content, d.anchor_x) + d.align_x
  /\ ClaimAnchorY(r, d.anchor_y) = ClaimAnchorY(Content, d.anchor_y) + d.align_y

\* C4: after a do_layout of the anchor layout that ran to its end, every
\* child's rect has, on each axis, its effective anchor at the content
\* rect's same anchor plus the child's align offset (unset anchor: center).
C4_AnchorInvariant ==
  (IsAnchor /\ op = "anchor_do_layout" /\ ~raised)
    => \A i \in 1..NumChildren : Anchored(rect[Child(i)], children[i].data)

\* two children were placed, one by its left/top edge with an offset, the
\* other with no anchor given
C4_Witness ==
  /\ IsAnchor /\ op = "anchor_do_layout" /\ ~raised /\ writes = 2
  /\ \E i, j \in 1..NumChildren :
       /\ children[i].data.anchor_x = "left" /\ children[i].data.align_x # 0
       /\ children[j].data.anchor_x = None /\ children[j].data.anchor_y = None
       /\ CenterX(rect[Child(j)]) = CenterX(Content)
       /\ CenterY(rect[Child(j)]) = CenterY(Content)

\* C5: a do_layout of the anchor layout that ran to its end leaves a child
\* with size_hint_min (mw, mh) at width max(previous width, mw) and height
\* max(previous height, mh), anchored as its options say, and leaves the
\* width and height of a child without size_hint_min as they were.
C5_MinSizeGrowth ==
  [][(op' = "anchor_do_layout" /\ ~raised')
       => \A i \in 1..NumChildren :
            LET c == Child(i)
                hint == size_hint_min[c]
            IN /\ hint # NoHint =>
                    /\ rect'[c].width = Max(rect[c].width, hint[1])
                    /\ rect'[c].height = Max(rect[c].height, hint[2])
               /\ hint = NoHint =>
                    /\ rect'[c].width = rect[c].width
                    /\ rect'[c].height = rect[c].height
               /\ Anchored(rect'[c], children[i].data)]_vars

\* a child smaller than its size_hint_min in both directions was grown to
\* exactly that size, next to a child without size_hint_min
C5_Witness ==
  /\ IsAnchor /\ op = "anchor_do_layout" /\ ~raised /\ writes > 0
  /\ \E c, d \in Present :
       /\ size_hint_min[c] = <<Px(MaxSide + 1), Px(MaxSide + 1)>>
       /\ rect[c].width = Px(MaxSide + 1) /\ rect[c].height = Px(MaxSide + 1)
       /\ size_hint_min[d] = NoHint

\* the children of a vertical box, stacked downwards from the content top
StackedDown(r) ==
  /\ NumChildren > 0 => Top(r[Child(1)]) = Top(Content)
  /\ \A i \in 2..NumChildren :
       Top(r[Child(i)]) = Bottom(r[Child(i - 1)]) - cfg.space_between

\* the children of a horizontal box, stacked rightwards from the content left
StackedRight(r) ==
  /\ NumChildren > 0 => Left(r[Child(1)]) = Left(Content)
  /\ \A i \in 2..NumChildren :
       Left(r[Child(i)]) = Right(r[Child(i - 1)]) + cfg.space_between

\* C6: a do_layout of a box puts the first child at the content rect's top
\* (vertical) or left (horizontal), every later child space_between after
\* the child before it in collection order, and changes no child's width or
\* height, whether or not the child fits the content rect.
C6_Stacking ==
  [][(op' = "box_do_layout")
       => /\ IF cfg.vertical THEN StackedDown(rect') ELSE StackedRight(rect')
          /\ \A c \in Present :
               /\ rect'[c].width = rect[c].width
               /\ rect'[c].height = rect[c].height]_vars

\* two children were stacked with a gap in a vertical box narrower than
\* the first of them
C6_Witness ==
  /\ IsBox /\ op = "box_do_layout" /\ writes = 2 /\ NumChildren = 2
  /\ cfg.vertical /\ cfg.space_between > 0
  /\ rect[Child(1)].width > Content.width
  /\ Top(rect[Child(1)]) = Top(Content)
  /\ Top(rect[Child(2)]) = Bottom(rect[Child(1)]) - cfg.space_between

\* C7: after a do_layout of a box with an edge alignment, every child has
\* that edge on the content rect's: bottom or top in a horizontal box, left
\* or right in a vertical box.
C7_EdgeAlignment ==
  (IsBox /\ op = "box_do_layout")
    => \A c \in Present :
         /\ (~cfg.vertical /\ cfg.align = "bottom")
              => Bottom(rect[c]) = Bottom(Content)
         /\ (~cfg.vertical /\ cfg.align = "top") => Top(rect[c]) = Top(Content)
         /\ (cfg.vertical /\ cfg.align = "left") => Left(rect[c]) = Left(Content)
         /\ (cfg.vertical /\ cfg.align = "right")
              => Right(rect[c]) = Right(Content)

\* two children of different heights were placed in a fitted horizontal box
\* with align "bottom"
C7_Witness ==
  /\ IsBox /\ op = "box_do_layout" /\ writes = 2 /\ NumChildren = 2
  /\ ~cfg.vertical /\ cfg.align = "bottom"
  /\ Content.height > 0
  /\ rect[Child(1)].height # rect[Child(2)].height
  /\ Bottom(rect[Child(2)]) = Bottom(Content)

\* C8: fit_content gives the box's own rect the width and height of its
\* size_hint_min at the same bottom-left corner and changes no child's rect
\* and not the child collection; add, remove and do_layout leave the box's
\* own rect as it is.
C8_FitContent ==
  [][/\ (op' = "fit_content")
          => /\ rect'[Self] = Rect(rect[Self].x, rect[Self].y,
                                   size_hint_min[Self][1], size_hint_min[Self][2])
             /\ \A c \in Leaves : rect'[c] = rect[c]
             /\ children' = children
             /\ size_hint_min' = size_hint_min
     /\ (op' \in {"box_add", "box_remove", "box_do_layout"})
          => rect'[Self] = rect[Self]]_vars

\* fit_content sized a box around one child that a do_layout had placed
C8_Witness ==
  /\ IsBox /\ op = "fit_content" /\ NumChildren = 1
  /\ rect[Self] = Rect(BoxOwnRect.x, BoxOwnRect.y,
                       size_hint_min[Self][1], size_hint_min[Self][2])
  /\ rect[Self].width > 0
  /\ \E c \in Present : rect[c].x # 0

\* the align values the box's axis recognizes
ValidAlign ==
  IF cfg.vertical THEN cfg.align \in {"left", "center", "right"}
  ELSE cfg.align \in {"top", "center", "bottom"}

\* v // 2 of a length v, in whole pixels
FloorHalf(v) == (v - (v % 4)) \div 2

CenteredFloor(r) ==
  IF cfg.vertical
    THEN CenterX(r) = Left(Content) + FloorHalf(Content.width)
  ELSE CenterY(r) = Top(Content) - FloorHalf(Content.height)

\* C9 as stated: a do_layout of a box whose align is not recognized for its
\* axis fails with an invalid-argument condition and positions no child.
C9_InvalidAlignFails ==
  (IsBox /\ ~ValidAlign /\ op = "box_do_layout" /\ NumChildren > 0)
    => (raised /\ writes = 0)

\* C9 as amended: a box whose align is not recognized for its axis is
\* constructed and laid out without any failure, and do_layout places every
\* child as it does for align "center".
C9_InvalidAlignCenters ==
  (IsBox /\ ~ValidAlign)
    => /\ ~raised
       /\ op = "box_do_layout" => \A c \in Present : CenteredFloor(rect[c])

\* two children were placed in a box whose align names the other axis
C9_Witness ==
  /\ IsBox /\ ~ValidAlign /\ op = "box_do_layout" /\ ~raised
  /\ writes = 2 /\ NumChildren = 2
  /\ Content.width > 0 /\ Content.height > 0

\* C10 as stated: after a do_layout of a box with align "center" every
\* child's center on the cross axis is the content rect's center, for odd
\* and even content sizes.
C10_TrueCenter ==
  (IsBox /\ op = "box_do_layout" /\ cfg.align = "center")
    => \A c \in Present :
         IF cfg.vertical THEN CenterX(rect[c]) = CenterX(Content)
         ELSE CenterY(rect[c]) = CenterY(Content)

\* C10 as amended: after a do_layout of a box with align "center" every
\* child's center_x is content left + floor(content width / 2) (vertical),
\* or its center_y is content top - floor(content height / 2) (horizontal);
\* that is the content rect's center exactly when the content size on the
\* cross axis is an even number of pixels.
C10_FloorCenter ==
  (IsBox /\ op = "box_do_layout" /\ cfg.align = "center")
    => \A c \in Present :
         /\ CenteredFloor(rect[c])
         /\ IF cfg.vertical
              THEN (CenterX(rect[c]) = CenterX(Content))
                     <=> (Content.width % Px(2) = 0)
            ELSE (CenterY(rect[c]) = CenterY(Content))
                   <=> (Content.height % Px(2) = 0)

\* a child was centered in a horizontal box whose content height is odd
C10_Witness ==
  /\ IsBox /\ op = "box_do_layout" /\ cfg.align = "center" /\ ~cfg.vertical
  /\ writes > 0 /\ Content.height > 0 /\ Content.height % Px(2) # 0
  /\ \E c \in Present : CenterY(rect[c]) = CenterY(Content) + Px(1) \div 2

====
